---- MODULE Spec2Model ----
(***************************************************************************)
(* PaperFinder: the view-state controller (App.tsx) and the two clients of *)
(* the generative-AI service (services/geminiService.ts).                  *)
(*                                                                         *)
(* Strings are modelled as sequences of tokens, so that concatenation,     *)
(* prefixing and "includes" are computed and not assumed.  A JavaScript    *)
(* value that may be a string, null or undefined is a tagged record.       *)
(* The source filter state (selectedSources) only feeds the prompt text    *)
(* and is left out.                                                        *)
(***************************************************************************)
EXTENDS Integers, Sequences, FiniteSets

(***************************************************************************)
(* Program constants                                                       *)
(***************************************************************************)
ITEMS_PER_PAGE == 5
CURRENT_YEAR == 2025
InitialStartYear == 2021
FirstOlderStart == 2015
FirstOlderEnd == 2020
OlderShift == 6

(***************************************************************************)
(* Bounds of the model                                                     *)
(***************************************************************************)
\* distinct URIs the AI service may return
NumUris == 7
\* length of the longest reference list of one response (before a repeat)
MaxLen == 6
\* how many 6-year blocks back the cursor may be taken
MaxOlder == 1
\* calls of one kind in flight when the handlers are invoked directly
MaxInFlight == 1
\* length of the longest list handed to the merge of an older search
MergeLen == 3

Queries == {"A", "B"}
Questions == {"why"}
\* the URIs whose checkbox the user ticks: the first of a list, and one that
\* an older search returns again under another title
TickedUris == {1, NumUris - 1}

(***************************************************************************)
(* JavaScript values                                                       *)
(***************************************************************************)
JSNull == [t |-> "null"]
JSUndef == [t |-> "undefined"]
Str(s) == [t |-> "string", v |-> s]
Arr(a) == [t |-> "array", a |-> a]

\* JavaScript truthiness of null, undefined and strings ('' is falsy)
Truthy(x) == x.t = "string" /\ x.v /= <<>>

\* Array.isArray
IsArray(x) == x.t = "array"

\* new Error(message); a thrown value that is no Error has isError = FALSE
Err(name, msg) == [isError |-> TRUE, name |-> name, message |-> msg]
NonError == [isError |-> FALSE, name |-> "", message |-> <<>>]

\* String.prototype.includes on token sequences
Includes(msg, tok) == \E i \in 1..Len(msg) : msg[i] = tok

(***************************************************************************)
(* References  (types.ts)                                                  *)
(* publicationDate is a number, 0 standing for a missing or empty date:    *)
(* ISO dates compare as strings the way these numbers compare.             *)
(***************************************************************************)
DateOf(u, t) == IF t = "t1" THEN u % 3 ELSE (u + 1) % 3

Ref(u, t) ==
    [uri |-> u, title |-> t, authors |-> Arr(<<"au">>),
     publicationDate |-> DateOf(u, t)]

\* a reference the service returned without its authors field
RefNoAuthors(u, t) == [Ref(u, t) EXCEPT !.authors = JSUndef]

\* the references lo, lo+1, .., lo+n-1, all titled t
RefRange(lo, n, t) == [i \in 1..n |-> Ref(lo + i - 1, t)]

\* the reference lists a response may carry: none, more than a page of
\* them, two that overlap the long list under another title and bring a new
\* URI, a list that repeats its first URI, and a reference without authors
RefLists ==
    { <<>>,
      RefRange(1, MaxLen, "t1"),
      RefRange(NumUris - 1, 2, "t2"),
      RefRange(1, 2, "t1") \o <<Ref(1, "t2")>>,
      <<RefNoAuthors(NumUris, "t1")>> }

Uris(refs) == { refs[i].uri : i \in 1..Len(refs) }

NoDuplicateUris(refs) ==
    \A i, j \in 1..Len(refs) : refs[i].uri = refs[j].uri => i = j

(***************************************************************************)
(* Raw text of a response: a sequence of tokens                            *)
(***************************************************************************)
FenceJson == [k |-> "fence_json"]
Fence == [k |-> "fence"]
Ws == [k |-> "ws"]
Junk == [k |-> "junk"]
Json(v) == [k |-> "json", j |-> v]

\* JSON values: null, or an object with (possibly absent) summary, references
JsonNull == [t |-> "null"]
JsonObject(s, r) == [t |-> "object", summary |-> s, references |-> r]

Summaries == {Str(<<"s1">>)}

\* what a well-formed answer to the search prompt decodes to
GoodData == { JsonObject(s, Arr(r)) : s \in Summaries, r \in RefLists }

\* decoded values that the schema check has to turn down, or that break it
BadData ==
    { JsonObject(s, Arr(<<>>)) : s \in {JSUndef, JSNull, Str(<<>>)} }
    \cup { JsonObject(Str(<<"s1">>), r) : r \in {JSUndef, Str(<<"refs">>)} }
    \cup { JsonNull }

\* the ways the service wraps one JSON value
Wrappings(v) ==
    { <<Json(v)>>,
      <<FenceJson, Ws, Json(v), Ws, Fence>>,
      <<FenceJson, Json(v), Fence, Ws>> }

\* texts with nothing in them, and texts that are no JSON
EmptyTexts == { <<>>, <<Ws>>, <<FenceJson, Ws, Fence>> }
MalformedTexts ==
    { <<Junk>>,
      <<Ws, FenceJson, Json(JsonObject(Str(<<"s1">>), Arr(<<>>))), Fence>>,
      <<Fence, Json(JsonObject(Str(<<"s1">>), Arr(<<>>))), Fence>> }

SearchTexts ==
    UNION { Wrappings(v) : v \in GoodData \cup BadData }
    \cup EmptyTexts \cup MalformedTexts

RECURSIVE DropLeadingWs(_)
DropLeadingWs(s) ==
    IF s /= <<>> /\ Head(s).k = "ws" THEN DropLeadingWs(Tail(s)) ELSE s

RECURSIVE DropTrailingWs(_)
DropTrailingWs(s) ==
    IF s /= <<>> /\ s[Len(s)].k = "ws"
    THEN DropTrailingWs(SubSeq(s, 1, Len(s) - 1))
    ELSE s

\* jsonString.replace(/^FENCEjson\s*|FENCE\s*$/g, ''), FENCE the three backticks
StripFence(s) ==
    LET lead == IF s /= <<>> /\ Head(s).k = "fence_json"
                THEN DropLeadingWs(Tail(s))
                ELSE s
        body == DropTrailingWs(lead)
    IN  IF body /= <<>> /\ body[Len(body)].k = "fence"
        THEN SubSeq(body, 1, Len(body) - 1)
        ELSE lead

\* String.prototype.trim
Trim(s) == DropTrailingWs(DropLeadingWs(s))

Sanitize(s) == Trim(StripFence(s))

\* JSON.parse accepts exactly one JSON value
JsonParses(s) == Len(s) = 1 /\ s[1].k = "json"

EmptyMessage == <<"Received an empty JSON string from the model.">>
SchemaMessage == <<"JSON response is missing 'summary' or 'references' fields.">>
SyntaxMessage == <<"Unexpected token">>
TypeMessage == <<"Cannot read properties">>

Ok(v) == [ok |-> TRUE, value |-> v, error |-> NonError]
Fail(e) == [ok |-> FALSE, value |-> JsonNull, error |-> e]

\* !data.summary || !Array.isArray(data.references)
SchemaViolated(data) == ~Truthy(data.summary) \/ ~IsArray(data.references)

\* text is response.text: a token sequence wrapped by Str, or undefined
parseAndValidateJsonResponse(text) ==
    IF text.t /= "string" THEN Fail(Err("TypeError", TypeMessage))
    ELSE LET sanitizedString == Sanitize(text.v)
         IN  IF sanitizedString = <<>> THEN Fail(Err("Error", EmptyMessage))
             ELSE IF ~JsonParses(sanitizedString)
                  THEN Fail(Err("SyntaxError", SyntaxMessage))
             ELSE LET data == sanitizedString[1].j
                  IN  IF data.t = "null" THEN Fail(Err("TypeError", TypeMessage))
                      ELSE IF SchemaViolated(data)
                           THEN Fail(Err("Error", SchemaMessage))
                      ELSE Ok(data)

(***************************************************************************)
(* Outcomes of one ai.models.generateContent call                          *)
(***************************************************************************)
Thrown(e) == [thrown |-> TRUE, error |-> e, text |-> JSUndef]
Response(x) == [thrown |-> FALSE, error |-> NonError, text |-> x]

XhrMessage == <<"got status: 0", "xhr error">>
QuotaMessage == <<"quota exceeded">>

ThrownOutcomes ==
    { Thrown(Err("Error", XhrMessage)), Thrown(Err("Error", QuotaMessage)),
      Thrown(NonError) }

SearchOutcomes ==
    ThrownOutcomes \cup { Response(Str(s)) : s \in SearchTexts }
    \cup { Response(JSUndef) }

AnswerTexts == { Str(<<"a1">>), Str(<<>>), JSUndef }
AnswerOutcomes == ThrownOutcomes \cup { Response(x) : x \in AnswerTexts }

\* one attempt of searchLiterature: await generateContent, then parse
Attempt(outcome) ==
    IF outcome.thrown THEN Fail(outcome.error)
    ELSE parseAndValidateJsonResponse(outcome.text)

(***************************************************************************)
(* searchLiterature and answerFromLiterature  (services/geminiService.ts)  *)
(***************************************************************************)
FallbackMarker == <<"(Simplified search succeeded after an initial error) ">>
NetworkMessage ==
    <<"A network communication error occurred with the AI service. This might be a temporary issue. Please try your search again shortly.">>
WrapPrefix == <<"An error occurred during the literature search: ">>
UnknownMessage == <<"Unknown error">>
EmptyAnswerMessage ==
    <<"The model could not generate an answer. Please try a different question.">>
CommunicationMessage ==
    <<"An error occurred while communicating with the AI service. Please check your network connection.">>

\* the parts of the prompt that vary
buildPrompt(query, withAbstract, dateRange) ==
    [query |-> query, withAbstract |-> withAbstract, dateRange |-> dateRange]

\* the parts of the question prompt that vary
answerPrompt(originalQuery, question) ==
    [query |-> originalQuery, question |-> question]

\* result.summary = marker + result.summary
WithMarker(data) ==
    [data EXCEPT !.summary = Str(FallbackMarker \o data.summary.v)]

\* mutant: the transport-level failure is not told apart
FinalErrorAlwaysWraps(finalError) ==
    Err("Error", WrapPrefix \o (IF finalError.isError
                                 THEN finalError.message
                                 ELSE UnknownMessage))

\* the catch (finalError) block
FinalError(finalError) ==
    IF finalError.isError /\ Includes(finalError.message, "xhr error")
    THEN Err("Error", NetworkMessage)
    ELSE Err("Error", WrapPrefix \o (IF finalError.isError
                                     THEN finalError.message
                                     ELSE UnknownMessage))

\* what searchLiterature does when its first call comes back with r:
\* return the parsed value, or go on to the simplified call
AmbitiousSettles(r) == r.ok

\* mutant: the fallback result is returned as parsed
SimplifiedResultUnmarked(r) ==
    IF r.ok THEN Ok(r.value) ELSE Fail(FinalError(r.error))

\* what searchLiterature returns when its second call comes back with r
SimplifiedResult(r) ==
    IF r.ok THEN Ok(WithMarker(r.value)) ELSE Fail(FinalError(r.error))

\* answerFromLiterature's try block up to the call: the context is built from
\* ref.authors.join, which throws on a reference without authors
ContextThrows(selectedReferences) ==
    \E i \in 1..Len(selectedReferences) : ~IsArray(selectedReferences[i].authors)

\* the try block after the call returned
AnswerTry(outcome) ==
    IF outcome.thrown THEN Fail(outcome.error)
    ELSE IF ~Truthy(outcome.text) THEN Fail(Err("Error", EmptyAnswerMessage))
    ELSE Ok(outcome.text)

\* the catch block rethrows every failure of the try block under one message
AnswerCatch(r) == IF r.ok THEN r ELSE Fail(Err("Error", CommunicationMessage))

answerFromLiteratureResult(outcome) == AnswerCatch(AnswerTry(outcome))

(***************************************************************************)
(* View state  (App.tsx)                                                   *)
(***************************************************************************)
VARIABLES
    summary, references, originalQuery, answer,
    isSearching, isSearchingOlder, isAnswering, error,
    sortOrder, currentPage, selectedReferencesForQA, nextDateRange,
    \* calls of searchLiterature / answerFromLiterature not yet settled,
    \* each with what its handler's closure captured
    pending,
    \* the step taken last: the handler invoked or the call that came back
    last,
    \* successful older searches for the active query since it was submitted
    olderDone

viewVars ==
    <<summary, references, originalQuery, answer, isSearching,
      isSearchingOlder, isAnswering, error, sortOrder, currentPage,
      selectedReferencesForQA, nextDateRange>>

vars ==
    <<summary, references, originalQuery, answer, isSearching,
      isSearchingOlder, isAnswering, error, sortOrder, currentPage,
      selectedReferencesForQA, nextDateRange, pending, last, olderDone>>

NullRange == [t |-> "null"]
Range(s, e) == [t |-> "range", start |-> s, end |-> e]

Call(kind, query, dateRange, refs, cursor, selected, question, prompt) ==
    [kind |-> kind, query |-> query, dateRange |-> dateRange,
     references |-> refs, nextDateRange |-> cursor,
     selected |-> selected, question |-> question,
     prompts |-> <<prompt>>, responses |-> <<>>, attempts |-> <<>>]

NoCall ==
    [kind |-> "none", query |-> "", dateRange |-> NullRange,
     references |-> <<>>, nextDateRange |-> NullRange,
     selected |-> <<>>, question |-> "", prompts |-> <<>>,
     responses |-> <<>>, attempts |-> <<>>]

NoResult == Fail(NonError)

\* op: the step; started: a handler went past its guard; call: the call that
\* came back, with the prompts sent, what generateContent answered to each
\* (responses) and what became of it (attempts); ret: what the service
\* function returned to the handler
Event(op, started, call, ret) ==
    [op |-> op, started |-> started, ret |-> ret,
     call |-> [kind |-> call.kind, query |-> call.query,
               dateRange |-> call.dateRange, prompts |-> call.prompts,
               responses |-> call.responses, attempts |-> call.attempts]]

Remove(seq, i) == SubSeq(seq, 1, i - 1) \o SubSeq(seq, i + 1, Len(seq))

Init ==
    /\ summary = JSNull
    /\ references = <<>>
    /\ originalQuery = ""
    /\ answer = JSNull
    /\ isSearching = FALSE
    /\ isSearchingOlder = FALSE
    /\ isAnswering = FALSE
    /\ error = JSNull
    /\ sortOrder = "relevance"
    /\ currentPage = 1
    /\ selectedReferencesForQA = <<>>
    /\ nextDateRange = NullRange
    /\ pending = [search |-> <<>>, older |-> <<>>, ask |-> <<>>]
    /\ last = Event("init", FALSE, NoCall, NoResult)
    /\ olderDone = 0

(***************************************************************************)
(* Derived views                                                           *)
(***************************************************************************)
\* x placed behind every element whose date is not smaller: the sort is
\* stable and descending
InsertByDate(sorted, x) ==
    LET keep == {i \in 1..Len(sorted) :
                    sorted[i].publicationDate >= x.publicationDate}
        n == Cardinality(keep)
    IN  SubSeq(sorted, 1, n) \o <<x>> \o SubSeq(sorted, n + 1, Len(sorted))

RECURSIVE SortByDate(_)
SortByDate(refs) ==
    IF refs = <<>> THEN <<>>
    ELSE InsertByDate(SortByDate(SubSeq(refs, 1, Len(refs) - 1)), refs[Len(refs)])

sortedReferences ==
    IF sortOrder = "relevance" THEN references ELSE SortByDate(references)

\* Math.ceil(n / ITEMS_PER_PAGE)
CeilDiv(n, d) == (n + d - 1) \div d

totalPages == CeilDiv(Len(sortedReferences), ITEMS_PER_PAGE)

Min(a, b) == IF a < b THEN a ELSE b

\* Array.prototype.slice(start, end) for start, end >= 0
Slice(seq, start, end) == SubSeq(seq, Min(start, Len(seq)) + 1, Min(end, Len(seq)))

paginatedReferences ==
    LET startIndex == (currentPage - 1) * ITEMS_PER_PAGE
    IN  Slice(sortedReferences, startIndex, startIndex + ITEMS_PER_PAGE)

isAnyLoading == isSearching \/ isSearchingOlder

\* summary && references.length > 0: the results panel is rendered
ResultsShown == Truthy(summary) /\ Len(references) > 0

(***************************************************************************)
(* Handlers.  The variable last is written by the specifications, below.   *)
(***************************************************************************)
DateRange(s, e) == [startYear |-> s, endYear |-> e]

handleSelectReference(ref) ==
    /\ selectedReferencesForQA' =
         IF \E i \in 1..Len(selectedReferencesForQA) :
                selectedReferencesForQA[i].uri = ref.uri
         THEN SelectSeq(selectedReferencesForQA, LAMBDA r : r.uri /= ref.uri)
         ELSE Append(selectedReferencesForQA, ref)
    /\ UNCHANGED <<summary, references, originalQuery, answer, isSearching,
                   isSearchingOlder, isAnswering, error, sortOrder,
                   currentPage, nextDateRange, pending, olderDone>>

\* mutant: the stored list is sorted in place when the date order is chosen
setSortOrderInPlace(order) ==
    /\ sortOrder' = order
    /\ references' = IF order = "date" THEN SortByDate(references) ELSE references
    /\ UNCHANGED <<summary, originalQuery, answer, isSearching,
                   isSearchingOlder, isAnswering, error, currentPage,
                   selectedReferencesForQA, nextDateRange, pending, olderDone>>

setSortOrder(order) ==
    /\ sortOrder' = order
    /\ UNCHANGED <<summary, references, originalQuery, answer, isSearching,
                   isSearchingOlder, isAnswering, error, currentPage,
                   selectedReferencesForQA, nextDateRange, pending, olderDone>>

setCurrentPage(page) ==
    /\ currentPage' = page
    /\ UNCHANGED <<summary, references, originalQuery, answer, isSearching,
                   isSearchingOlder, isAnswering, error, sortOrder,
                   selectedReferencesForQA, nextDateRange, pending, olderDone>>

SearchCall(query) ==
    LET dateRange == DateRange(InitialStartYear, CURRENT_YEAR)
    IN  Call("search", query, dateRange, <<>>, NullRange, <<>>, "",
             buildPrompt(query, TRUE, dateRange))

\* mutant: the Q&A selection and the page survive a new query
handleSearchKeepsSelection(query) ==
    /\ isSearching' = TRUE
    /\ error' = JSNull
    /\ summary' = JSNull
    /\ references' = <<>>
    /\ answer' = JSNull
    /\ originalQuery' = query
    /\ sortOrder' = "relevance"
    /\ nextDateRange' = NullRange
    /\ pending' = [pending EXCEPT !.search = Append(@, SearchCall(query))]
    /\ olderDone' = 0
    /\ UNCHANGED <<isSearchingOlder, isAnswering, currentPage,
                   selectedReferencesForQA>>

\* the handler up to its await: the resets, and the ambitious call issued
handleSearch(query) ==
    /\ isSearching' = TRUE
    /\ error' = JSNull
    /\ summary' = JSNull
    /\ references' = <<>>
    /\ answer' = JSNull
    /\ originalQuery' = query
    /\ currentPage' = 1
    /\ sortOrder' = "relevance"
    /\ selectedReferencesForQA' = <<>>
    /\ nextDateRange' = NullRange
    /\ pending' = [pending EXCEPT !.search = Append(@, SearchCall(query))]
    /\ olderDone' = 0
    /\ UNCHANGED <<isSearchingOlder, isAnswering>>

\* if (!originalQuery || !nextDateRange) return
handleSearchOlderGuard == originalQuery = "" \/ nextDateRange.t = "null"

\* the closure captures originalQuery, references and nextDateRange
OlderCall ==
    LET dateRange == DateRange(nextDateRange.start, nextDateRange.end)
    IN  Call("older", originalQuery, dateRange, references, nextDateRange,
             <<>>, "", buildPrompt(originalQuery, TRUE, dateRange))

\* mutant: the flag and the error slot are written before the guard
handleSearchOlderFlagFirst ==
    IF handleSearchOlderGuard
    THEN /\ isSearchingOlder' = TRUE
         /\ error' = JSNull
         /\ UNCHANGED <<summary, references, originalQuery, answer,
                        isSearching, isAnswering, sortOrder, currentPage,
                        selectedReferencesForQA, nextDateRange, pending,
                        olderDone>>
    ELSE /\ isSearchingOlder' = TRUE
         /\ error' = JSNull
         /\ pending' = [pending EXCEPT !.older = Append(@, OlderCall)]
         /\ UNCHANGED <<summary, references, originalQuery, answer,
                        isSearching, isAnswering, sortOrder, currentPage,
                        selectedReferencesForQA, nextDateRange, olderDone>>

handleSearchOlder ==
    IF handleSearchOlderGuard
    THEN UNCHANGED <<summary, references, originalQuery, answer,
                     isSearching, isSearchingOlder, isAnswering, error,
                     sortOrder, currentPage, selectedReferencesForQA,
                     nextDateRange, pending, olderDone>>
    ELSE /\ isSearchingOlder' = TRUE
         /\ error' = JSNull
         /\ pending' = [pending EXCEPT !.older = Append(@, OlderCall)]
         /\ UNCHANGED <<summary, references, originalQuery, answer,
                        isSearching, isAnswering, sortOrder, currentPage,
                        selectedReferencesForQA, nextDateRange, olderDone>>

\* mutant: the selection is not looked at
handleAskGuardQueryOnly == originalQuery = ""

\* if (!originalQuery || selectedReferencesForQA.length === 0) return
handleAskGuard == originalQuery = "" \/ Len(selectedReferencesForQA) = 0

\* the closure captures originalQuery and selectedReferencesForQA
AskCall(question) ==
    Call("ask", originalQuery, NullRange, <<>>, NullRange,
         selectedReferencesForQA, question,
         answerPrompt(originalQuery, question))

\* when the context cannot be built answerFromLiterature rejects before any
\* call, and the catch and finally blocks run before the next event
handleAsk(question) ==
    IF handleAskGuard
    THEN UNCHANGED <<summary, references, originalQuery, answer,
                     isSearching, isSearchingOlder, isAnswering, error,
                     sortOrder, currentPage, selectedReferencesForQA,
                     nextDateRange, pending, olderDone>>
    ELSE /\ answer' = JSNull
         /\ IF ContextThrows(selectedReferencesForQA)
            THEN /\ isAnswering' = FALSE
                 /\ error' = Str(CommunicationMessage)
                 /\ pending' = pending
            ELSE /\ isAnswering' = TRUE
                 /\ error' = JSNull
                 /\ pending' = [pending EXCEPT !.ask = Append(@, AskCall(question))]
         /\ UNCHANGED <<summary, references, originalQuery, isSearching,
                        isSearchingOlder, sortOrder, currentPage,
                        selectedReferencesForQA, nextDateRange, olderDone>>

(***************************************************************************)
(* The calls coming back                                                   *)
(***************************************************************************)
\* mutant: a failed simplified call is tried once more
searchLiteratureStepRetries(c, outcome) ==
    LET r == Attempt(outcome)
        c1 == [c EXCEPT !.attempts = Append(@, r),
                        !.responses = Append(@, outcome)]
    IN  IF r.ok
        THEN [done |-> TRUE, call |-> c1,
              ret |-> IF Len(c.prompts) = 1 THEN Ok(r.value)
                      ELSE Ok(WithMarker(r.value))]
        ELSE IF Len(c.prompts) <= 2
        THEN [done |-> FALSE,
              call |-> [c1 EXCEPT !.prompts =
                          Append(@, buildPrompt(c.query, FALSE, c.dateRange))],
              ret |-> NoResult]
        ELSE [done |-> TRUE, call |-> c1, ret |-> Fail(FinalError(r.error))]

\* searchLiterature resumed by the outcome of the call it awaits: it either
\* returns to the handler (done) or issues the simplified call
searchLiteratureStep(c, outcome) ==
    LET r == Attempt(outcome)
        c1 == [c EXCEPT !.attempts = Append(@, r),
                        !.responses = Append(@, outcome)]
    IN  IF Len(c.prompts) = 1
        THEN IF AmbitiousSettles(r)
             THEN [done |-> TRUE, call |-> c1, ret |-> Ok(r.value)]
             ELSE [done |-> FALSE,
                   call |-> [c1 EXCEPT !.prompts =
                               Append(@, buildPrompt(c.query, FALSE, c.dateRange))],
                   ret |-> NoResult]
        ELSE [done |-> TRUE, call |-> c1, ret |-> SimplifiedResult(r)]

\* mutant: a key that is already there keeps its value
MapSetKeepsFirst(entries, ref) ==
    IF \E i \in 1..Len(entries) : entries[i].uri = ref.uri
    THEN entries
    ELSE Append(entries, ref)

\* new Map(allRefs.map(ref => [ref.uri, ref])): a key keeps the place of its
\* first insertion and the value of its last
MapSet(entries, ref) ==
    IF \E i \in 1..Len(entries) : entries[i].uri = ref.uri
    THEN [i \in 1..Len(entries) |->
            IF entries[i].uri = ref.uri THEN ref ELSE entries[i]]
    ELSE Append(entries, ref)

RECURSIVE MapOf(_)
MapOf(allRefs) ==
    IF allRefs = <<>> THEN <<>>
    ELSE MapSet(MapOf(SubSeq(allRefs, 1, Len(allRefs) - 1)), allRefs[Len(allRefs)])

\* Array.from(new Map(...).values())
uniqueRefs(existing, found) == MapOf(existing \o found)

\* handleSearch after its await: try, catch and finally
SearchSettled(ret) ==
    /\ IF ret.ok
       THEN /\ summary' = ret.value.summary
            /\ references' = ret.value.references.a
            /\ nextDateRange' = Range(FirstOlderStart, FirstOlderEnd)
            /\ error' = error
       ELSE /\ error' = Str(ret.error.message)
            /\ UNCHANGED <<summary, references, nextDateRange>>
    /\ isSearching' = FALSE
    /\ UNCHANGED <<originalQuery, answer, isSearchingOlder, isAnswering,
                   sortOrder, currentPage, selectedReferencesForQA, olderDone>>

\* mutant: the catch block of the older search also ends the initial search
OlderSettledClearsSearching(c, ret) ==
    /\ IF ret.ok
       THEN /\ references' = uniqueRefs(c.references, ret.value.references.a)
            /\ nextDateRange' = Range(c.nextDateRange.start - OlderShift,
                                      c.nextDateRange.end - OlderShift)
            /\ olderDone' = IF c.query = originalQuery
                            THEN olderDone + 1 ELSE olderDone
            /\ error' = error
            /\ isSearching' = isSearching
       ELSE /\ error' = Str(ret.error.message)
            /\ isSearching' = FALSE
            /\ UNCHANGED <<references, nextDateRange, olderDone>>
    /\ isSearchingOlder' = FALSE
    /\ UNCHANGED <<summary, originalQuery, answer, isAnswering,
                   sortOrder, currentPage, selectedReferencesForQA>>

\* mutant: the response of a search for another query than the active one
\* is dropped
OlderSettledDiscardsStale(c, ret) ==
    /\ IF c.query /= originalQuery
       THEN UNCHANGED <<references, nextDateRange, olderDone, error>>
       ELSE IF ret.ok
       THEN /\ references' = uniqueRefs(c.references, ret.value.references.a)
            /\ nextDateRange' = Range(c.nextDateRange.start - OlderShift,
                                      c.nextDateRange.end - OlderShift)
            /\ olderDone' = olderDone + 1
            /\ error' = error
       ELSE /\ error' = Str(ret.error.message)
            /\ UNCHANGED <<references, nextDateRange, olderDone>>
    /\ isSearchingOlder' = FALSE
    /\ UNCHANGED <<summary, originalQuery, answer, isSearching, isAnswering,
                   sortOrder, currentPage, selectedReferencesForQA>>

\* mutant: the cursor is moved after the try block, whatever its outcome
OlderSettledAdvancesAlways(c, ret) ==
    /\ IF ret.ok
       THEN /\ references' = uniqueRefs(c.references, ret.value.references.a)
            /\ olderDone' = IF c.query = originalQuery
                            THEN olderDone + 1 ELSE olderDone
            /\ error' = error
       ELSE /\ error' = Str(ret.error.message)
            /\ UNCHANGED <<references, olderDone>>
    /\ nextDateRange' = Range(c.nextDateRange.start - OlderShift,
                              c.nextDateRange.end - OlderShift)
    /\ isSearchingOlder' = FALSE
    /\ UNCHANGED <<summary, originalQuery, answer, isSearching, isAnswering,
                   sortOrder, currentPage, selectedReferencesForQA>>

\* handleSearchOlder after its await, with what its closure captured in c
OlderSettled(c, ret) ==
    /\ IF ret.ok
       THEN /\ references' = uniqueRefs(c.references, ret.value.references.a)
            /\ nextDateRange' = Range(c.nextDateRange.start - OlderShift,
                                      c.nextDateRange.end - OlderShift)
            /\ olderDone' = IF c.query = originalQuery
                            THEN olderDone + 1 ELSE olderDone
            /\ error' = error
       ELSE /\ error' = Str(ret.error.message)
            /\ UNCHANGED <<references, nextDateRange, olderDone>>
    /\ isSearchingOlder' = FALSE
    /\ UNCHANGED <<summary, originalQuery, answer, isSearching, isAnswering,
                   sortOrder, currentPage, selectedReferencesForQA>>

\* mutant: the flag is cleared at the end of the try block, not in finally
AskSettledNoFinally(ret) ==
    /\ IF ret.ok
       THEN answer' = ret.value /\ error' = error /\ isAnswering' = FALSE
       ELSE error' = Str(ret.error.message) /\ answer' = answer
            /\ isAnswering' = isAnswering
    /\ UNCHANGED <<summary, references, originalQuery, isSearching,
                   isSearchingOlder, sortOrder, currentPage,
                   selectedReferencesForQA, nextDateRange, olderDone>>

\* handleAsk after its await
AskSettled(ret) ==
    /\ IF ret.ok
       THEN answer' = ret.value /\ error' = error
       ELSE error' = Str(ret.error.message) /\ answer' = answer
    /\ isAnswering' = FALSE
    /\ UNCHANGED <<summary, references, originalQuery, isSearching,
                   isSearchingOlder, sortOrder, currentPage,
                   selectedReferencesForQA, nextDateRange, olderDone>>

\* a generateContent call made by an initial search comes back
SearchCallReturns(i, outcome) ==
    LET step == searchLiteratureStep(pending.search[i], outcome)
    IN  IF step.done
        THEN /\ SearchSettled(step.ret)
             /\ pending' = [pending EXCEPT !.search = Remove(@, i)]
        ELSE /\ pending' = [pending EXCEPT !.search[i] = step.call]
             /\ UNCHANGED <<viewVars, olderDone>>

\* a generateContent call made by an older search comes back
OlderCallReturns(i, outcome) ==
    LET step == searchLiteratureStep(pending.older[i], outcome)
    IN  IF step.done
        THEN /\ OlderSettled(step.call, step.ret)
             /\ pending' = [pending EXCEPT !.older = Remove(@, i)]
        ELSE /\ pending' = [pending EXCEPT !.older[i] = step.call]
             /\ UNCHANGED <<viewVars, olderDone>>

\* the generateContent call of answerFromLiterature comes back
AnswerCallReturns(i, outcome) ==
    /\ AskSettled(answerFromLiteratureResult(outcome))
    /\ pending' = [pending EXCEPT !.ask = Remove(@, i)]

(***************************************************************************)
(* What a step leaves in last, for the specifications that record it       *)
(***************************************************************************)
ViewEvent == Event("view", TRUE, NoCall, NoResult)

SearchEvent == Event("handleSearch", TRUE, NoCall, NoResult)

OlderEvent == Event("handleSearchOlder", ~handleSearchOlderGuard, NoCall, NoResult)

AskEvent(question) ==
    IF ~handleAskGuard /\ ContextThrows(selectedReferencesForQA)
    THEN Event("handleAsk", TRUE, [AskCall(question) EXCEPT !.prompts = <<>>],
               Fail(Err("Error", CommunicationMessage)))
    ELSE Event("handleAsk", ~handleAskGuard, NoCall, NoResult)

ReturnEvent(kind, c, outcome) ==
    LET step == searchLiteratureStep(c, outcome)
    IN  Event(IF step.done THEN kind \o "Returned" ELSE kind \o "Retried",
              TRUE, step.call, step.ret)

AnswerEvent(c, outcome) ==
    Event("answerReturned", TRUE,
          [c EXCEPT !.attempts = Append(@, AnswerTry(outcome)),
                    !.responses = Append(@, outcome)],
          answerFromLiteratureResult(outcome))

\* what a specification records of its steps in last: nothing ("off"), the
\* step and whether a handler went past its guard ("ops"), or all ("full")
Record(traced, event) ==
    last' = CASE traced = "off" -> last
              [] traced = "ops" -> Event(event.op, event.started, NoCall, NoResult)
              [] OTHER -> event

(***************************************************************************)
(* What the service is taken to answer.  The application-level             *)
(* specifications let a call fail in one way or succeed with any reference *)
(* list; SpecService lets it come back in every way listed above.          *)
(***************************************************************************)
PlainRefLists ==
    { r \in RefLists : \A i \in 1..Len(r) : IsArray(r[i].authors) }

PlainSearchOutcomes ==
    { Thrown(Err("Error", XhrMessage)) }
    \cup { Response(Str(<<FenceJson, Ws, Json(JsonObject(s, Arr(r))), Ws, Fence>>)) :
              s \in Summaries, r \in PlainRefLists }

PlainAnswerOutcomes ==
    { Thrown(Err("Error", XhrMessage)), Response(Str(<<"a1">>)) }

SearchReturns(traced, outcomes) ==
    \E i \in 1..Len(pending.search), outcome \in outcomes :
        /\ SearchCallReturns(i, outcome)
        /\ Record(traced, ReturnEvent("search", pending.search[i], outcome))

OlderReturns(traced, outcomes) ==
    \E i \in 1..Len(pending.older), outcome \in outcomes :
        /\ OlderCallReturns(i, outcome)
        /\ Record(traced, ReturnEvent("older", pending.older[i], outcome))

AnswerReturns(traced, outcomes) ==
    \E i \in 1..Len(pending.ask), outcome \in outcomes :
        /\ AnswerCallReturns(i, outcome)
        /\ Record(traced, AnswerEvent(pending.ask[i], outcome))

(***************************************************************************)
(* The application: handlers reached through the rendered components       *)
(***************************************************************************)
\* the cursor is not taken further back than MaxOlder blocks
CursorInBounds ==
    nextDateRange.t = "range"
    => nextDateRange.start > FirstOlderStart - OlderShift * MaxOlder

\* mutant: the form submits while a search is in flight
SearchBarSubmitUngated(query) == handleSearch(query)

\* SearchBar.handleSubmit: query.trim() && !isLoading
SearchBarSubmit(query) == ~isSearching /\ handleSearch(query)

\* the search-older button: rendered, and not disabled
SearchOlderClick ==
    /\ ResultsShown
    /\ nextDateRange.t = "range" /\ ~isSearching
    /\ ~isAnyLoading
    /\ CursorInBounds
    /\ handleSearchOlder

\* QABox.handleSubmit: question.trim() && !isDisabled
QABoxSubmit(question) ==
    /\ ResultsShown
    /\ ~(Len(selectedReferencesForQA) = 0 \/ isAnswering)
    /\ handleAsk(question)

\* a checkbox of ResultsDisplay
ResultsSelect(ref) ==
    /\ ResultsShown
    /\ ref.uri \in TickedUris
    /\ handleSelectReference(ref)

\* the two sort buttons
SortClick(order) == ResultsShown /\ setSortOrder(order)

\* the two buttons of Pagination
PreviousPage ==
    /\ ResultsShown /\ totalPages > 1
    /\ currentPage /= 1
    /\ setCurrentPage(currentPage - 1)

NextPage ==
    /\ ResultsShown /\ totalPages > 1
    /\ currentPage /= totalPages
    /\ setCurrentPage(currentPage + 1)

App(traced) ==
    \/ \E query \in Queries :
          SearchBarSubmit(query) /\ Record(traced, SearchEvent)
    \/ SearchOlderClick /\ Record(traced, OlderEvent)
    \/ \E question \in Questions :
          QABoxSubmit(question) /\ Record(traced, AskEvent(question))
    \/ \E i \in 1..Len(paginatedReferences) :
          ResultsSelect(paginatedReferences[i]) /\ Record(traced, ViewEvent)
    \/ \E order \in {"relevance", "date"} :
          SortClick(order) /\ Record(traced, ViewEvent)
    \/ PreviousPage /\ Record(traced, ViewEvent)
    \/ NextPage /\ Record(traced, ViewEvent)
    \/ SearchReturns(traced, PlainSearchOutcomes)
    \/ OlderReturns(traced, PlainSearchOutcomes)
    \/ AnswerReturns(traced, PlainAnswerOutcomes)

\* the application as the user drives it
Next == App("off")

Spec == Init /\ [][Next]_vars

\* the same, each step recorded in last
NextTraced == App("full")

SpecTraced == Init /\ [][NextTraced]_vars

\* a step in which a call of an initial search, of an older search, of a
\* question comes back: the call in flight is gone or replaced by the
\* simplified one (a handler starting only appends)
SearchComesBack ==
    pending'.search /= pending.search /\ Len(pending'.search) <= Len(pending.search)

OlderComesBack ==
    pending'.older /= pending.older /\ Len(pending'.older) <= Len(pending.older)

AnswerComesBack ==
    pending'.ask /= pending.ask /\ Len(pending'.ask) <= Len(pending.ask)

\* every call to the service comes back in the end, with a result or with an
\* error, and the event loop then runs the continuation of its handler.
\* This is weak fairness of the three kinds of return, WF_vars(A) written
\* out as []<>~ENABLED <<A>>_vars \/ []<><<A>>_vars: a return is enabled
\* exactly while a call of its kind is in flight.
Fairness ==
    /\ []<>(Len(pending.search) = 0) \/ []<><<SearchComesBack>>_vars
    /\ []<>(Len(pending.older) = 0) \/ []<><<OlderComesBack>>_vars
    /\ []<>(Len(pending.ask) = 0) \/ []<><<AnswerComesBack>>_vars

SpecLive == Init /\ [][Next]_vars /\ Fairness

(***************************************************************************)
(* The call-bearing transitions and the selection toggle invoked directly, *)
(* whatever is rendered, with at most MaxInFlight calls of a kind in       *)
(* flight                                                                  *)
(***************************************************************************)
NextCtl ==
    \/ \E query \in Queries :
          /\ Len(pending.search) < MaxInFlight
          /\ handleSearch(query) /\ Record("ops", SearchEvent)
    \/ /\ handleSearchOlderGuard
          \/ (Len(pending.older) < MaxInFlight /\ CursorInBounds)
       /\ handleSearchOlder /\ Record("ops", OlderEvent)
    \/ \E question \in Questions :
          /\ handleAskGuard \/ Len(pending.ask) < MaxInFlight
          /\ handleAsk(question) /\ Record("ops", AskEvent(question))
    \/ \E i \in 1..Len(references) :
          /\ references[i].uri \in TickedUris
          /\ handleSelectReference(references[i]) /\ Record("ops", ViewEvent)
    \/ SearchReturns("ops", PlainSearchOutcomes)
    \/ OlderReturns("ops", PlainSearchOutcomes)
    \/ AnswerReturns("ops", PlainAnswerOutcomes)

SpecCtl == Init /\ [][NextCtl]_vars

(***************************************************************************)
(* The two clients of the service under every outcome of a call: the       *)
(* application without older searches, sorting and paging                  *)
(***************************************************************************)
NextService ==
    \/ \E query \in Queries :
          SearchBarSubmit(query) /\ Record("full", SearchEvent)
    \/ \E question \in Questions :
          QABoxSubmit(question) /\ Record("full", AskEvent(question))
    \/ \E i \in 1..Len(paginatedReferences) :
          ResultsSelect(paginatedReferences[i]) /\ Record("full", ViewEvent)
    \/ SearchReturns("full", SearchOutcomes)
    \/ AnswerReturns("full", AnswerOutcomes)

SpecService == Init /\ [][NextService]_vars

(***************************************************************************)
(* The merge of an older search on every pair of lists: the view state     *)
(* after a search (and MaxOlder - 1 older searches) left any list E in     *)
(* references, and the older search for the next block answered with any   *)
(* list N                                                                  *)
(***************************************************************************)
SeqsUpTo(S, n) == UNION { [1..k -> S] : k \in 0..n }

\* references over three URIs, the second under two titles
MergeRefs == { Ref(1, "t1"), Ref(2, "t1"), Ref(2, "t2"), Ref(3, "t2") }

MergeLists == SeqsUpTo(MergeRefs, MergeLen)

MergeOutcomes ==
    { Thrown(Err("Error", XhrMessage)) }
    \cup { Response(Str(<<Json(JsonObject(s, Arr(r)))>>)) :
              s \in Summaries, r \in MergeLists }

InitMerge ==
    /\ summary \in Summaries
    /\ references \in MergeLists
    /\ originalQuery = "A"
    /\ answer = JSNull
    /\ isSearching = FALSE
    /\ isSearchingOlder = FALSE
    /\ isAnswering = FALSE
    /\ error = JSNull
    /\ sortOrder = "relevance"
    /\ currentPage = 1
    /\ selectedReferencesForQA = <<>>
    /\ nextDateRange = Range(FirstOlderStart - OlderShift * (MaxOlder - 1),
                             FirstOlderEnd - OlderShift * (MaxOlder - 1))
    /\ pending = [search |-> <<>>, older |-> <<>>, ask |-> <<>>]
    /\ last = Event("init", FALSE, NoCall, NoResult)
    /\ olderDone = MaxOlder - 1

\* the handler invoked while no search is in flight
MergeStart ==
    /\ ~isAnyLoading
    /\ CursorInBounds
    /\ handleSearchOlder /\ Record("full", OlderEvent)

NextMerge ==
    \/ MergeStart
    \/ OlderReturns("full", MergeOutcomes)

SpecMerge == InitMerge /\ [][NextMerge]_vars

(***************************************************************************)
(* Claims                                                                  *)
(***************************************************************************)

\* C1: in every reachable state the current reference set holds no two
\* references with the same URI.
C1_NoDuplicateUris == NoDuplicateUris(references)

\* C2: in every reachable state 1 <= currentPage <= ceil(referenceCount / 5),
\* before any result has arrived as well.
C2_PageInRange ==
    /\ 1 <= currentPage
    /\ currentPage <= CeilDiv(Len(references), ITEMS_PER_PAGE)

\* C3: one invocation of searchLiterature issues at most two calls: it has
\* returned after one exactly when the ambitious attempt parsed and
\* validated, after two otherwise, the first prompt asking for abstracts and
\* the second not; a call in flight is the first or the second, the second
\* only after a failed first.
C3_AtMostTwoCalls ==
    /\ \A i \in 1..Len(pending.search) :
          LET c == pending.search[i]
          IN  /\ Len(c.prompts) \in {1, 2}
              /\ Len(c.attempts) = Len(c.prompts) - 1
              /\ Len(c.prompts) = 2 => ~c.attempts[1].ok
    /\ last.op = "searchReturned" =>
          LET c == last.call
          IN  /\ Len(c.attempts) = Len(c.prompts)
              /\ Len(c.prompts) = IF c.attempts[1].ok THEN 1 ELSE 2
              /\ c.prompts[1].withAbstract
              /\ Len(c.prompts) = 2 => ~c.prompts[2].withAbstract

\* C3 witness: both attempts failed and searchLiterature has returned.
C3_Witness ==
    /\ last.op = "searchReturned"
    /\ ~last.ret.ok
    /\ Len(last.call.prompts) = 2
    /\ ~last.call.attempts[2].ok

HasMarker(s) == Len(s.v) >= 1 /\ s.v[1] = FallbackMarker[1]

\* C4: a returned summary carries the fallback marker exactly when the
\* ambitious attempt failed and the simplified one succeeded, and is then
\* the marker followed by the parsed summary; when the ambitious attempt
\* succeeds the summary and references are returned as parsed.
C4_MarkerIffFallback ==
    (last.op = "searchReturned" /\ last.ret.ok) =>
        LET a == last.call.attempts
            value == last.ret.value
        IN  /\ HasMarker(value.summary) <=> (~a[1].ok /\ a[2].ok)
            /\ a[1].ok => value = a[1].value
            /\ ~a[1].ok =>
                  /\ value.summary = Str(FallbackMarker \o a[2].value.summary.v)
                  /\ value.references = a[2].value.references

\* C4 witness: the ambitious attempt failed on the schema and the simplified
\* one succeeded.
C4_Witness ==
    /\ last.op = "searchReturned"
    /\ last.ret.ok
    /\ ~last.call.attempts[1].ok
    /\ last.call.attempts[1].error.message = SchemaMessage
    /\ summary = last.ret.value.summary

\* C5: when both attempts fail the error surfaced is decided by the second
\* failure alone: the network error if its message holds "xhr error",
\* otherwise the generic error wrapping its message.
C5_SecondFailureDecides ==
    (last.op = "searchReturned" /\ ~last.ret.ok) =>
        LET a == last.call.attempts
            e2 == a[2].error
        IN  /\ ~a[1].ok /\ ~a[2].ok
            /\ last.ret.error.message =
                  IF e2.isError /\ Includes(e2.message, "xhr error")
                  THEN NetworkMessage
                  ELSE WrapPrefix \o (IF e2.isError THEN e2.message
                                      ELSE UnknownMessage)

\* C5 witness: the first failure was a transport failure, the second was
\* not, and the generic error is surfaced.
C5_Witness ==
    /\ last.op = "searchReturned"
    /\ ~last.ret.ok
    /\ Includes(last.call.attempts[1].error.message, "xhr error")
    /\ last.call.attempts[2].error.message = EmptyMessage
    /\ error = Str(WrapPrefix \o EmptyMessage)

\* C6: answerFromLiterature issues one call and returns the text when it is
\* non-empty, fails with the empty-answer message when the service returned
\* no text, and with the communication message on any other failure.
C6_AnswerOutcomes ==
    (last.op = "answerReturned") =>
        LET tried == last.call.attempts[1]
        IN  /\ Len(last.call.prompts) = 1
            /\ tried.ok => last.ret = Ok(tried.value)
            /\ (~tried.ok /\ tried.error.message = EmptyAnswerMessage) =>
                  (~last.ret.ok /\ last.ret.error.message = EmptyAnswerMessage)
            /\ (~tried.ok /\ tried.error.message /= EmptyAnswerMessage) =>
                  (~last.ret.ok /\ last.ret.error.message = CommunicationMessage)

\* C7: ask(question) with no reference selected or no active query issues no
\* call and changes no part of the view state.
C7_AskDisabled ==
    [][ (/\ last'.op = "handleAsk"
         /\ Len(selectedReferencesForQA) = 0 \/ originalQuery = "")
        => (UNCHANGED viewVars /\ pending' = pending) ]_vars

\* C7 witness: ask was invoked with an active query and nothing selected,
\* and did not go past its guard.
C7_Witness ==
    /\ last.op = "handleAsk"
    /\ ~last.started
    /\ originalQuery /= ""
    /\ Len(references) > 0
    /\ Len(selectedReferencesForQA) = 0

\* C8: submitQuery(q) resets summary, answer, references, selection, page,
\* sort order, error slot and cursor and records q; its search succeeding
\* stores that result and arms the cursor to the 6 years before the initial
\* window; its search failing stores the error message and nothing else.
C8_SubmitQuery ==
    [][ /\ Len(pending.search') > Len(pending.search) =>
              /\ summary' = JSNull /\ answer' = JSNull
              /\ references' = <<>> /\ selectedReferencesForQA' = <<>>
              /\ currentPage' = 1 /\ sortOrder' = "relevance"
              /\ error' = JSNull /\ nextDateRange' = NullRange
              /\ originalQuery' = pending.search'[Len(pending.search')].query
              /\ originalQuery' \in Queries
        /\ (last'.op = "searchReturned" /\ last'.ret.ok) =>
              /\ summary' = last'.ret.value.summary
              /\ references' = last'.ret.value.references.a
              /\ nextDateRange' = Range(InitialStartYear - OlderShift,
                                        InitialStartYear - 1)
              /\ nextDateRange' = Range(2015, 2020)
        /\ (last'.op = "searchReturned" /\ ~last'.ret.ok) =>
              /\ error' = Str(last'.ret.error.message)
              /\ UNCHANGED <<summary, references, originalQuery, answer,
                             sortOrder, currentPage, selectedReferencesForQA,
                             nextDateRange>>
      ]_vars

\* C8 witness: a query submitted over earlier results has come back with
\* references and the cursor is armed to 2015-2020.
C8_Witness ==
    /\ last.op = "searchReturned"
    /\ last.ret.ok
    /\ originalQuery = "B"
    /\ Len(references) > ITEMS_PER_PAGE
    /\ nextDateRange = Range(2015, 2020)
    /\ Len(pending.older) = 1

\* C9: an armed cursor equals {2015 - 6k, 2020 - 6k}, k the number of older
\* searches for the active query that completed successfully.
C9_CursorFollowsCount ==
    nextDateRange.t = "range" =>
        nextDateRange = Range(FirstOlderStart - OlderShift * olderDone,
                              FirstOlderEnd - OlderShift * olderDone)

\* C10: searchOlder() with no cursor armed or no active query issues no call
\* and leaves every view-state variable unchanged.
C10_SearchOlderNoOp ==
    [][ (/\ last'.op = "handleSearchOlder"
         /\ nextDateRange.t = "null" \/ originalQuery = "")
        => (UNCHANGED viewVars /\ pending' = pending) ]_vars

\* C10 witness: searchOlder was invoked for an active query whose cursor is
\* not armed, and did not go past its guard.
C10_Witness ==
    /\ last.op = "handleSearchOlder"
    /\ ~last.started
    /\ originalQuery /= ""
    /\ nextDateRange.t = "null"

\* the places of a list where a URI shows for the first time, in order
FirstSeen(all) ==
    { i \in 1..Len(all) : \A j \in 1..(i - 1) : all[j].uri /= all[i].uri }

\* the k-th smallest member of a set of numbers
Kth(I, k) == CHOOSE i \in I : Cardinality({ j \in I : j < i }) = k - 1

\* the last place of a list where the URI u shows
LastPlace(all, u) ==
    CHOOSE i \in 1..Len(all) :
        /\ all[i].uri = u
        /\ \A j \in (i + 1)..Len(all) : all[j].uri /= u

\* C11: a successful searchOlder stores, for the list E its handler captured
\* and the list N the search returned, a list without duplicate URIs whose
\* URIs are those of E followed by N at their first-seen places, each with
\* the value of its last occurrence in E followed by N.
C11_MergeFirstSeenLastWins ==
    [][ (last'.op = "olderReturned" /\ last'.ret.ok) =>
          LET E == pending.older[1].references
              N == last'.ret.value.references.a
              all == E \o N
              I == FirstSeen(all)
          IN  /\ NoDuplicateUris(references')
              /\ Len(references') = Cardinality(I)
              /\ \A k \in 1..Len(references') :
                    /\ references'[k].uri = all[Kth(I, k)].uri
                    /\ references'[k] = all[LastPlace(all, references'[k].uri)]
      ]_vars

\* C11 witness: [a, b] merged with [b(new), c] gave [a, b(new), c].
C11_Witness ==
    /\ last.op = "olderReturned"
    /\ last.ret.ok
    /\ last.ret.value.references.a = <<Ref(2, "t2"), Ref(3, "t2")>>
    /\ references = <<Ref(1, "t1"), Ref(2, "t2"), Ref(3, "t2")>>

\* C12: the completion of an older search, successful or failed, removes no
\* URI that is in the reference set when the completion is applied, in every
\* interleaving with submitted queries.
C12_OlderNeverRemoves ==
    [][ Len(pending'.older) < Len(pending.older)
        => Uris(references) \subseteq Uris(references') ]_vars

\* C13: with the submit accepted only while isSearching is false, the
\* search-older click only while neither isSearching nor isSearchingOlder is
\* true and a question only while isAnswering is false, at most one initial
\* search, one older search and one Q&A call are in flight, each exactly
\* while its flag is set.
C13_OneCallPerKind ==
    /\ Len(pending.search) = (IF isSearching THEN 1 ELSE 0)
    /\ Len(pending.older) = (IF isSearchingOlder THEN 1 ELSE 0)
    /\ Len(pending.ask) = (IF isAnswering THEN 1 ELSE 0)

\* C13 witness: an initial search, an older search of the query before it
\* and a question are in flight together.
C13_Witness ==
    /\ Len(pending.search) = 1
    /\ Len(pending.older) = 1
    /\ Len(pending.ask) = 1
    /\ pending.older[1].query /= pending.search[1].query

\* C14: a handler that starts its action sets its own flag and leaves the
\* other two as they are; a call coming back with a result or an error clears
\* the flag of its own action, if the action is over, and leaves the other
\* two as they are.
C14_FlagsIndependent ==
    [][ /\ last'.op = "handleSearch" =>
              /\ isSearching'
              /\ UNCHANGED <<isSearchingOlder, isAnswering>>
        /\ (last'.op = "handleSearchOlder" /\ last'.started) =>
              /\ isSearchingOlder'
              /\ UNCHANGED <<isSearching, isAnswering>>
        /\ (last'.op = "handleAsk" /\ last'.started) =>
              /\ isAnswering' = (Len(pending'.ask) > Len(pending.ask))
              /\ UNCHANGED <<isSearching, isSearchingOlder>>
        /\ last'.op = "searchReturned" =>
              /\ ~isSearching'
              /\ UNCHANGED <<isSearchingOlder, isAnswering>>
        /\ last'.op = "olderReturned" =>
              /\ ~isSearchingOlder'
              /\ UNCHANGED <<isSearching, isAnswering>>
        /\ last'.op = "answerReturned" =>
              /\ ~isAnswering'
              /\ UNCHANGED <<isSearching, isSearchingOlder>>
        /\ last'.op \in {"searchRetried", "olderRetried"} =>
              UNCHANGED <<isSearching, isSearchingOlder, isAnswering>>
      ]_vars

\* C14 witness: an older search has failed while an initial search and a
\* question are in flight, and their flags are still set.
C14_Witness ==
    /\ last.op = "olderReturned"
    /\ ~last.ret.ok
    /\ ~isSearchingOlder
    /\ isSearching /\ Len(pending.search) = 1
    /\ isAnswering /\ Len(pending.ask) = 1

\* C15: in a state reached by the successful completion of a search, an
\* older search or a question, the error slot holds no message of a failure
\* that came before it; a successful completion writes no message itself, so
\* the slot is empty.
C15_SuccessClearsError ==
    (last.op \in {"searchReturned", "olderReturned", "answerReturned"}
     /\ last.ret.ok)
    => error = JSNull

\* the place of refs[i] in the stable descending order by date: behind every
\* later date, and behind the equal dates that arrived before it
Rank(refs, i) ==
    Cardinality({ j \in 1..Len(refs) :
                    refs[j].publicationDate > refs[i].publicationDate })
    + Cardinality({ j \in 1..(i - 1) :
                      refs[j].publicationDate = refs[i].publicationDate })
    + 1

\* C16: a setSortOrder call that changes the order changes nothing else of
\* the state (stored list, selection, cursor included); under "date" the
\* displayed list is the stored one in descending order of date, equal dates
\* in arrival order, and sorting it again leaves it as it is; under
\* "relevance" the displayed list is the stored list in arrival order.
C16_SortIsPureView ==
    /\ [][ (sortOrder' /= sortOrder /\ pending' = pending) =>
              UNCHANGED <<summary, references, originalQuery, answer,
                          isSearching, isSearchingOlder, isAnswering, error,
                          currentPage, selectedReferencesForQA, nextDateRange>>
          ]_vars
    /\ [](sortOrder = "relevance" => sortedReferences = references)
    /\ [](sortOrder = "date" =>
            /\ Len(sortedReferences) = Len(references)
            /\ \A i \in 1..Len(references) :
                  sortedReferences[Rank(references, i)] = references[i]
            /\ SortByDate(sortedReferences) = sortedReferences)

\* C16 witness: more than a page of references with equal dates among them
\* is displayed by date, in another order than the stored one, with a
\* reference selected and the cursor armed.
C16_Witness ==
    /\ sortOrder = "date"
    /\ Len(references) > ITEMS_PER_PAGE
    /\ sortedReferences /= references
    /\ \E i, j \in 1..Len(references) :
          i /= j /\ references[i].publicationDate = references[j].publicationDate
    /\ Len(selectedReferencesForQA) > 0
    /\ nextDateRange.t = "range"

\* C17: an older search started for one query that comes back with a result
\* after another query was submitted is applied and not dropped: the stored
\* list becomes the list of the earlier query with the references returned
\* for it, the cursor is the one advanced from the range searched, and the
\* active query and the summary stay those of the later query.
C17_StaleOlderApplied ==
    [][ (/\ last'.op = "olderReturned" /\ last'.ret.ok
         /\ pending.older[1].query /= originalQuery) =>
          LET c == pending.older[1]
              N == last'.ret.value.references.a
          IN  /\ Uris(references') = Uris(c.references) \cup Uris(N)
              /\ \A u \in Uris(N) :
                    \E k \in 1..Len(references') :
                        references'[k] = N[LastPlace(N, u)]
              /\ nextDateRange' = Range(c.dateRange.startYear - OlderShift,
                                        c.dateRange.endYear - OlderShift)
              /\ UNCHANGED <<originalQuery, summary>>
      ]_vars

\* C17 witness: the older search for A came back after B was submitted and
\* had returned; B is the active query with its summary, the list holds
\* references returned for A, and the cursor is one block back although no
\* older search for B has been made.
C17_Witness ==
    /\ last.op = "olderReturned" /\ last.ret.ok
    /\ last.call.query = "A"
    /\ originalQuery = "B"
    /\ Truthy(summary) /\ ~isSearching
    /\ Len(last.ret.value.references.a) > 0
    /\ \A i \in 1..Len(last.ret.value.references.a) :
          \E k \in 1..Len(references) :
              references[k] = last.ret.value.references.a[i]
    /\ olderDone = 0
    /\ nextDateRange = Range(FirstOlderStart - OlderShift,
                             FirstOlderEnd - OlderShift)

\* C18: the parser puts a response text into exactly one of four classes,
\* tried in this order: the empty-response error when nothing is left of the
\* text without its code fence and surrounding whitespace, the JSON syntax
\* error when what is left is no JSON value, the schema error when the value
\* has no truthy summary or no array of references, and the value itself
\* otherwise; and a first attempt that failed is followed by the simplified
\* attempt.
C18_ParserClassifies ==
    last.op \in {"searchReturned", "searchRetried"} =>
        /\ \A k \in 1..Len(last.call.attempts) :
              LET o == last.call.responses[k]
                  r == last.call.attempts[k]
                  rest == Sanitize(o.text.v)
                  v == rest[1].j
              IN  (~o.thrown /\ o.text.t = "string") =>
                    IF rest = <<>>
                    THEN ~r.ok /\ r.error = Err("Error", EmptyMessage)
                    ELSE IF ~JsonParses(rest)
                    THEN ~r.ok /\ r.error.name = "SyntaxError"
                    ELSE IF \/ v.t = "null"
                            \/ ~Truthy(v.summary)
                            \/ ~IsArray(v.references)
                    THEN ~r.ok /\ r.error = Err("Error", SchemaMessage)
                    ELSE r = Ok(v)
        /\ ~last.call.attempts[1].ok => Len(last.call.prompts) = 2

\* C19: every call to the service coming back in the end, a loading flag
\* that is set is cleared in the end, whether its action succeeds or fails,
\* and in no reachable state is a flag set without a call of its action in
\* flight.
C19_FlagsEventuallyCleared ==
    /\ isSearching ~> ~isSearching
    /\ isSearchingOlder ~> ~isSearchingOlder
    /\ isAnswering ~> ~isAnswering
    /\ [](/\ isSearching => Len(pending.search) > 0
          /\ isSearchingOlder => Len(pending.older) > 0
          /\ isAnswering => Len(pending.ask) > 0)

\* C19 witness: a failure was stored for the active query and no flag is
\* left set, after an older search and a question were made for it.
C19_Witness ==
    /\ error /= JSNull
    /\ ~isSearching /\ ~isSearchingOlder /\ ~isAnswering
    /\ olderDone > 0
    /\ answer /= JSNull

\* C20: when an older search fails, the reference list, summary, active
\* query, cursor, page, sort order, selection and answer keep the values they
\* had before the failure was applied; the error slot takes the failure
\* message and isSearchingOlder becomes false, and nothing else changes.
C20_FailedOlderLeavesResults ==
    [][ (last'.op = "olderReturned" /\ ~last'.ret.ok) =>
          /\ UNCHANGED <<references, summary, originalQuery, nextDateRange,
                         currentPage, sortOrder, selectedReferencesForQA,
                         answer, isSearching, isAnswering>>
          /\ error' = Str(last'.ret.error.message)
          /\ Truthy(error')
          /\ ~isSearchingOlder'
      ]_vars

\* C20 witness: an older search failed over results of which the second
\* page is shown, with a reference selected and a question answered.
C20_Witness ==
    /\ last.op = "olderReturned" /\ ~last.ret.ok
    /\ error = Str(NetworkMessage)
    /\ ~isSearchingOlder
    /\ Len(references) > ITEMS_PER_PAGE
    /\ currentPage = 2
    /\ Len(selectedReferencesForQA) > 0
    /\ answer /= JSNull
    /\ nextDateRange = Range(FirstOlderStart, FirstOlderEnd)

\* C21: in every reachable state the Q&A selection holds no URI twice, and
\* every selected reference has the URI of a reference in the reference list.
C21_SelectionWithinReferences ==
    /\ NoDuplicateUris(selectedReferencesForQA)
    /\ Uris(selectedReferencesForQA) \subseteq Uris(references)

\* C22: a stored answer belongs to the active query: a question that comes
\* back with an answer was asked for the query that is active when the answer
\* is stored, and not for one that a later submitQuery has replaced.
C22_AnswerOfActiveQuery ==
    (last.op = "answerReturned" /\ last.ret.ok) =>
        /\ answer = last.ret.value
        /\ last.call.query = originalQuery

====
